---- MODULE Spec2Model ----
(***************************************************************************)
(* A model of headsetcontrol-gui.py: the capability registry, the device   *)
(* bridge sendHeadset, the start-up sequence (capability discovery, window *)
(* construction, poll loop start), the two self-rescheduling poll loops,   *)
(* the user-edit callbacks and the modal error dialog.                     *)
(*                                                                         *)
(* Python values are modelled as follows.  None is the empty sequence and  *)
(* an optional value x is <<x>>.  A text (str) is a sequence of strings,   *)
(* its pieces in order; a text that is parsed is given character by        *)
(* character.  A command-line argument is a record [t, v] whose tag t is   *)
(* the Python type ("str" or "int") and whose v is the text of the value,  *)
(* so that an int and the str of the same number differ.                   *)
(***************************************************************************)
EXTENDS Integers, Sequences, FiniteSets

\* ------------------------------------------------------------ bounds

\* Longest capability-discovery output (in characters) that is enumerated.
MaxRespLen == 3

\* Number of user edits in one run of the program.
MaxEdits == 1

\* ------------------------------------------------------------ values

None == <<>>

Some(x) == <<x>>

NL == "\n"

PyStr(text) == [t |-> "str", v |-> text]

Range(s) == { s[i] : i \in DOMAIN s }

RECURSIVE SeqsUpTo(_, _)
SeqsUpTo(S, n) ==
    IF n = 0 THEN { <<>> }
    ELSE LET shorter == SeqsUpTo(S, n - 1)
         IN  shorter \cup { Append(s, x) : s \in { q \in shorter : Len(q) = n - 1 }, x \in S }

Digits == <<"0", "1", "2", "3", "4", "5", "6", "7", "8", "9">>

DigitValue(c) == CHOOSE d \in 0..9 : Digits[d + 1] = c

IsDigit(c) == \E d \in 0..9 : Digits[d + 1] = c

\* str(n) for an int n: the decimal digits, with a leading "-" when negative.
RECURSIVE NatToText(_)
NatToText(n) ==
    IF n < 10 THEN << Digits[n + 1] >>
    ELSE Append(NatToText(n \div 10), Digits[(n % 10) + 1])

IntToText(n) == IF n < 0 THEN <<"-">> \o NatToText(0 - n) ELSE NatToText(n)

PyInt(n) == [t |-> "int", v |-> IntToText(n)]

IsSpace(c) == c \in { " ", NL }

RECURSIVE StripLeft(_)
StripLeft(s) == IF s # <<>> /\ IsSpace(Head(s)) THEN StripLeft(Tail(s)) ELSE s

RECURSIVE StripRight(_)
StripRight(s) ==
    IF s # <<>> /\ IsSpace(s[Len(s)]) THEN StripRight(SubSeq(s, 1, Len(s) - 1)) ELSE s

RECURSIVE DigitsValue(_)
DigitsValue(s) ==
    IF s = <<>> THEN 0 ELSE 10 * DigitsValue(SubSeq(s, 1, Len(s) - 1)) + DigitValue(s[Len(s)])

\* int(text): surrounding whitespace is dropped, then an optional sign and
\* one or more digits are required; anything else raises ValueError.
ParseInt(text) ==
    LET body   == StripRight(StripLeft(text))
        signed == body # <<>> /\ Head(body) \in { "-", "+" }
        digs   == IF signed THEN Tail(body) ELSE body
        ok     == digs # <<>> /\ \A i \in DOMAIN digs : IsDigit(digs[i])
    IN  [ ok |-> ok,
          n  |-> IF ~ok THEN 0
                 ELSE IF signed /\ Head(body) = "-" THEN 0 - DigitsValue(digs)
                 ELSE DigitsValue(digs) ]

\* text.split('\n')[0]
FirstLine(text) ==
    IF \E i \in DOMAIN text : text[i] = NL
    THEN SubSeq(text, 1, (CHOOSE i \in DOMAIN text :
                             text[i] = NL /\ \A j \in 1..(i - 1) : text[j] # NL) - 1)
    ELSE text

\* ------------------------------------------------------------ Capability

Capability(short_option, long_option, max, default, editable) ==
    [ short_option |-> short_option,
      long_option  |-> long_option,
      max          |-> max,
      default      |-> default,
      editable     |-> editable ]

\* The widget Capability.__init__ builds as the capability's actuator.
WidgetKind(cap) ==
    IF cap.editable
    THEN IF cap.default.t = "str" THEN "Entry"
         ELSE IF cap.max = 1 THEN "Switch"
         ELSE IF cap.max < 10 THEN "SpinButton"
         ELSE "Scale"
    ELSE "displayLevel"

\* ------------------------------------------------------------ Capabilities

EmptyCapabilities == [ key_list |-> <<>>, cap_dict |-> [ k \in {} |-> None ] ]

insert_mutant_prepend(c, capability) ==
    [ key_list |-> << capability.short_option >> \o c.key_list,
      cap_dict |-> [ k \in DOMAIN c.cap_dict \cup { capability.short_option } |->
                       IF k = capability.short_option THEN capability ELSE c.cap_dict[k] ] ]

insert(c, capability) ==
    [ key_list |-> Append(c.key_list, capability.short_option),
      cap_dict |-> [ k \in DOMAIN c.cap_dict \cup { capability.short_option } |->
                       IF k = capability.short_option THEN capability ELSE c.cap_dict[k] ] ]

lookup(c, key) == IF key \in DOMAIN c.cap_dict THEN Some(c.cap_dict[key]) ELSE None

len(c) == Cardinality(DOMAIN c.cap_dict)

RECURSIVE InsertAll(_, _)
InsertAll(c, capabilitiesList) ==
    IF capabilitiesList = <<>> THEN c
    ELSE InsertAll(insert(c, Head(capabilitiesList)), Tail(capabilitiesList))

Capabilities(capabilitiesList) == InsertAll(EmptyCapabilities, capabilitiesList)

\* CapabilitiesIterator.__next__ from position current_index (0-based), run
\* to StopIteration: the sequence of capabilities a for loop receives.
RECURSIVE IterateFrom(_, _)
IterateFrom(c, current_index) ==
    IF current_index < len(c)
    THEN << c.cap_dict[c.key_list[current_index + 1]] >> \o IterateFrom(c, current_index + 1)
    ELSE <<>>

Iterate(c) == IterateFrom(c, 0)

\* ------------------------------------------------------------ the static table

all_capabilities ==
    Capabilities(<<
        Capability("s", "sidetone",         128, PyInt(0),     TRUE),
        Capability("b", "battery",          100, PyInt(0),     FALSE),
        Capability("n", "notificate",       10,  PyInt(0),     TRUE),
        Capability("l", "light",            1,   PyInt(0),     TRUE),
        Capability("i", "inactive-time",    90,  PyInt(0),     TRUE),
        Capability("m", "chatmix",          128, PyInt(0),     FALSE),
        Capability("v", "voice-prompt",     1,   PyInt(0),     TRUE),
        Capability("r", "rotate-to-mute ",  1,   PyInt(0),     TRUE),
        Capability("e", "equalizer",        0,   PyStr(<<>>),  TRUE),
        Capability("p", "equalizer-preset", 3,   PyInt(0),     TRUE) >>)

RegistryKeys == DOMAIN all_capabilities.cap_dict

\* ------------------------------------------------------------ state

VARIABLES
    args,                  \* argparse result: batterypolltime, chatmixpolltime, debug
    pc,                    \* position of the main program
    device_output,         \* what `headsetcontrol -c -?` prints on this device
    headset_capabilities,  \* the supported set (a Capabilities object)
    grid,                  \* mainWin.grid: the actuators attached, each with its row
    row,                   \* cap.row of each capability (None: attribute never set)
    actuator,              \* cap.actuator of each capability (a widget name)
    fraction,              \* displayLevel's fraction, in hundredths, per capability
    value,                 \* what each editable actuator currently shows
    timers,                \* pending GLib timeouts per callback
    dialogs,               \* stack of handlers blocked in ErrorDialog.run()
    edits,                 \* number of user edits so far
    last,                  \* history: the step just taken and its sendHeadset call
    polled                 \* history: loops started, battery values polled

vars == << args, pc, device_output, headset_capabilities, grid, row, actuator,
           fraction, value, timers, dialogs, edits, last, polled >>

\* ------------------------------------------------------------ environment

\* Intervals tried for each loop: 0 (no poll) and the argparse default.
BatteryPollTimes == { 0, 60 }

ChatMixPollTimes == { 0, 1 }

\* What the external command may do when it is run: exit 0 with some
\* standard output, or exit non-zero with an error text.
Ok(stdout) == [ returncode |-> 0, stdout |-> stdout, stderr |-> "" ]

Failed == [ returncode |-> 1, stdout |-> <<>>, stderr |-> "No supported headset found" ]

BatteryOutcomes ==
    { Ok(<<"7", "5", NL>>), Ok(<<"4", "0">>), Ok(<<"-", "1", NL>>), Ok(<<>>), Failed }

ChatMixOutcomes == { Ok(<<"6", "4", NL>>), Ok(<<"x">>), Failed }

WriteOutcomes == { Ok(<<>>), Failed }

QueryOutcomes == { Ok(device_output), Failed }

\* Characters a line of discovery output is built from: two registry keys
\* and a character that is no registry key.
RespAlphabet == { "s", "b", "x" }

\* The output of a device that supports every capability of the table.
FullResponse == all_capabilities.key_list \o << NL >>

\* The outputs tried: every line over RespAlphabet up to MaxRespLen
\* characters, the full line, the line "sbl", no output at all, and an
\* output whose second line holds a further key.
DiscoveryOutputs ==
    { line \o << NL >> : line \in SeqsUpTo(RespAlphabet, MaxRespLen) }
        \cup { FullResponse, << "s", "b", "l", NL >>, <<>>, << "s", NL, "b", NL >> }

EntryTexts == { <<>>, <<"0", "x", "1", "8">> }

\* Values a user may set on a capability's actuator: some text, the two
\* switch positions, every stepper position, the ends of the slider's range.
UserValues(cap) ==
    CASE WidgetKind(cap) = "Entry"      -> EntryTexts
      [] WidgetKind(cap) = "Switch"     -> { 0, 1 }
      [] WidgetKind(cap) = "SpinButton" -> 0..cap.max
      [] WidgetKind(cap) = "Scale"      -> { 0, cap.max }
      [] OTHER                          -> {}

\* ------------------------------------------------------------ sendHeadset

\* ErrorDialog(message): a modal dialog carrying the message, run (blocking
\* its caller in a nested main loop) until the user dismisses it.
ErrorDialog_mutant_none(message) == None

ErrorDialog(message) == Some(message)

\* The guard of line 238.
supported_mutant_always(hc, cmd) == TRUE

supported(hc, cmd) == cmd = "?" \/ lookup(hc, cmd) # None

\* sendHeadset(cmd, arg) when the external command, if run, ends as `outcome`.
\* arg is None or Some(argument).  The result tells the command line built,
\* how many times subprocess.run executed the command, its exit code and
\* error text, the value returned, the message of the ErrorDialog shown
\* (None: no dialog) and the exception raised (subprocess.run raises
\* TypeError, executing nothing, for an argument that is not a str).
sendHeadset(hc, cmd, arg, outcome) ==
    LET optionList == << PyStr(<<"-c">>), PyStr(<<"-", cmd>>) >> \o arg
        cmdline    == << PyStr(<<"headsetcontrol">>) >> \o optionList
    IN  IF supported(hc, cmd)
        THEN IF \E i \in DOMAIN cmdline : cmdline[i].t # "str"
             THEN [ cmdline |-> cmdline, runs |-> 0, returncode |-> 0, stderr |-> "",
                    result |-> None, dialog |-> None, raised |-> Some("TypeError") ]
             ELSE IF outcome.returncode = 0
             THEN [ cmdline |-> cmdline, runs |-> 1, returncode |-> 0, stderr |-> "",
                    result |-> Some(outcome.stdout), dialog |-> None, raised |-> None ]
             ELSE [ cmdline |-> cmdline, runs |-> 1, returncode |-> outcome.returncode,
                    stderr |-> outcome.stderr,
                    result |-> None, dialog |-> ErrorDialog(outcome.stderr), raised |-> None ]
        ELSE [ cmdline |-> cmdline, runs |-> 0, returncode |-> 0, stderr |-> "",
               result |-> None, dialog |-> None, raised |-> None ]

\* The history record of a step: which step, on whose behalf, and the
\* sendHeadset call it made (call: the fields of sendHeadset's result).
Step(step, caller, ctx, cmd, call) ==
    [ step |-> step, caller |-> caller, ctx |-> ctx, cmd |-> cmd,
      cmdline |-> call.cmdline, runs |-> call.runs, returncode |-> call.returncode,
      stderr |-> call.stderr, result |-> call.result, dialog |-> call.dialog,
      raised |-> call.raised ]

NoCall == [ cmdline |-> <<>>, runs |-> 0, returncode |-> 0, stderr |-> "",
            result |-> None, dialog |-> None, raised |-> None ]

Raising(call, exception) == [ call EXCEPT !.raised = Some(exception) ]

\* ------------------------------------------------------------ widgets

Widget(key, name) == [ cap |-> key, w |-> name ]

\* Gtk.Grid.attach(child, 1, top, 1, 1): a child that already has a parent is
\* refused (GTK logs a warning and leaves the grid as it is).
attach(g, child, top) ==
    IF \E c \in g : c.child = child THEN g ELSE g \cup { [ child |-> child, top |-> top ] }

\* Gtk.Grid.remove(child)
remove(g, child) == { c \in g : c.child # child }

\* One of MainWindow.__init__'s two loops over `caps` (the capabilities the
\* iterator yields), attaching those whose editable flag is `editable`.
\* w is [grid, row, next]: the grid, each cap.row, and the local row counter.
RECURSIVE AttachLoop(_, _, _)
AttachLoop(caps, editable, w) ==
    IF caps = <<>> THEN w
    ELSE LET cap == Head(caps)
         IN  IF cap.editable = editable
             THEN AttachLoop(Tail(caps), editable,
                    [ grid |-> attach(w.grid, Widget(cap.short_option, WidgetKind(cap)), w.next),
                      row  |-> [ w.row EXCEPT ![cap.short_option] = Some(w.next) ],
                      next |-> w.next + 1 ])
             ELSE AttachLoop(Tail(caps), editable, w)

\* MainWindow.__init__(title, capabilities)
MainWindow(capabilities) ==
    LET caps  == Iterate(capabilities)
        start == [ grid |-> {}, row |-> [ k \in RegistryKeys |-> None ], next |-> 0 ]
    IN  AttachLoop(caps, FALSE, AttachLoop(caps, TRUE, start))

\* GLib.timeout_add(interval, callback): one more pending source for callback.
timeout_add(t, interval, callback) == [ t EXCEPT ![callback] = @ + 1 ]

\* ------------------------------------------------------------ start-up

DefaultValue(cap) == ParseInt(cap.default.v).n

Init ==
    /\ args \in [ batterypolltime : BatteryPollTimes,
                  chatmixpolltime : ChatMixPollTimes,
                  debug : BOOLEAN ]
    /\ pc = "name"
    /\ device_output \in DiscoveryOutputs
    /\ headset_capabilities = EmptyCapabilities
    /\ grid = {}
    /\ row = [ k \in RegistryKeys |-> None ]
    /\ actuator = [ k \in RegistryKeys |-> WidgetKind(all_capabilities.cap_dict[k]) ]
    /\ fraction = [ k \in { q \in RegistryKeys : ~all_capabilities.cap_dict[q].editable } |->
                      DefaultValue(all_capabilities.cap_dict[k]) ]
    /\ value = [ k \in { q \in RegistryKeys : all_capabilities.cap_dict[q].editable } |->
                   LET cap == all_capabilities.cap_dict[k]
                   IN  CASE WidgetKind(cap) = "Entry"  -> <<>>
                         [] WidgetKind(cap) = "Switch" -> IF DefaultValue(cap) = 1 THEN 1 ELSE 0
                         [] OTHER                      -> DefaultValue(cap) ]
    /\ timers = [ checkBattery |-> 0, checkChatMix |-> 0 ]
    /\ dialogs = <<>>
    /\ edits = 0
    /\ last = Step("init", "main", "startup", "", NoCall)
    /\ polled = [ started |-> {}, level |-> None,
                  shown |-> DefaultValue(all_capabilities.cap_dict["b"]) ]

\* Lines 283-286: the headset's name is cut out of the verbose output; an
\* output without 'Found ' ends the program with IndexError.
ObtainName ==
    /\ pc = "name"
    /\ \E found \in BOOLEAN :
         /\ pc' = IF found THEN "discover" ELSE "crashed"
         /\ last' = Step("name", "main", "startup", "",
                         IF found THEN NoCall ELSE Raising(NoCall, "IndexError"))
    /\ UNCHANGED << args, device_output, headset_capabilities, grid, row, actuator,
                    fraction, value, timers, dialogs, edits, polled >>

\* for char in split[0]: headset_capabilities.insert(all_capabilities.lookup(char))
\* insert(None) raises AttributeError, which ends the loop and the program.
RECURSIVE DiscoverLoop(_, _)
DiscoverLoop(c, line) ==
    IF line = <<>> THEN [ caps |-> c, raised |-> None ]
    ELSE LET found == lookup(all_capabilities, Head(line))
         IN  IF found = None
             THEN [ caps |-> c, raised |-> Some("AttributeError") ]
             ELSE DiscoverLoop(insert(c, found[1]), Tail(line))

\* Lines 291-297: the capability query and the construction of the supported
\* set.  A query that returns None ends the program at result.split, once
\* its ErrorDialog is dismissed.
Discover ==
    /\ pc = "discover"
    /\ dialogs = <<>>
    /\ \E outcome \in QueryOutcomes :
         LET r == sendHeadset(EmptyCapabilities, "?", None, outcome)
         IN  IF r.dialog # None
             THEN /\ dialogs' = << [ handler |-> "main", ctx |-> "startup", cmd |-> "?" ] >>
                  /\ last' = Step("call", "main", "startup", "?", r)
                  /\ UNCHANGED << pc, headset_capabilities >>
             ELSE IF r.result = None
             THEN /\ pc' = "crashed"
                  /\ last' = Step("call", "main", "startup", "?", Raising(r, "AttributeError"))
                  /\ UNCHANGED << dialogs, headset_capabilities >>
             ELSE LET d == DiscoverLoop(EmptyCapabilities, FirstLine(r.result[1]))
                  IN  /\ headset_capabilities' = d.caps
                      /\ pc' = IF d.raised # None THEN "crashed" ELSE "window"
                      /\ last' = Step("call", "main", "startup", "?",
                                      [ r EXCEPT !.raised = d.raised ])
                      /\ UNCHANGED dialogs
    /\ UNCHANGED << args, device_output, grid, row, actuator, fraction, value,
                    timers, edits, polled >>

\* Lines 303-307: the window shows the supported set, or the whole table in
\* debug mode.
BuildWindow ==
    /\ pc = "window"
    /\ LET w == MainWindow(IF args.debug THEN all_capabilities ELSE headset_capabilities)
       IN  /\ grid' = w.grid
           /\ row' = w.row
    /\ pc' = "start_b"
    /\ last' = Step("window", "main", "startup", "", NoCall)
    /\ UNCHANGED << args, device_output, headset_capabilities, actuator, fraction,
                    value, timers, dialogs, edits, polled >>

\* ------------------------------------------------------------ poll loops

\* Lines 195-197 and 202-204: the widget in the capability's grid cell is
\* replaced.  cap.row is read last: a capability the window never attached
\* has no row, and the attach raises AttributeError after the removal.
swapActuator_mutant_no_remove(g, old, new, top) ==
    IF top = None THEN g ELSE attach(g, new, top[1])

swapActuator(g, old, new, top) ==
    IF top = None THEN remove(g, old) ELSE attach(remove(g, old), new, top[1])

\* checkBattery up to, and not including, its timeout_add, when the external
\* command ends as `outcome`: the sendHeadset call, the exception raised (if
\* any) and the widget state the body leaves.
checkBattery(outcome) ==
    LET r      == sendHeadset(headset_capabilities, "b", None, outcome)
        level  == r.result
        same   == [ call |-> r, grid |-> grid, actuator |-> actuator, fraction |-> fraction ]
    IN  IF level = None THEN same
        ELSE IF ~ParseInt(level[1]).ok
        THEN [ same EXCEPT !.call = Raising(r, "ValueError") ]
        ELSE LET n      == ParseInt(level[1]).n
                 target == IF n >= 0 THEN "displayLevel" ELSE "displayCharging"
                 swap   == actuator["b"] # target
                 g      == IF swap
                           THEN swapActuator(grid, Widget("b", actuator["b"]),
                                             Widget("b", target), row["b"])
                           ELSE grid
             IN  IF swap /\ row["b"] = None
                 THEN [ call     |-> Raising(r, "AttributeError"),
                        grid     |-> g,
                        actuator |-> [ actuator EXCEPT !["b"] = target ],
                        fraction |-> fraction ]
                 ELSE [ call     |-> r,
                        grid     |-> g,
                        actuator |-> [ actuator EXCEPT !["b"] = target ],
                        fraction |-> IF n >= 0 THEN [ fraction EXCEPT !["b"] = n ]
                                     ELSE fraction ]

\* checkChatMix up to its timeout_add.
checkChatMix(outcome) ==
    LET r      == sendHeadset(headset_capabilities, "m", None, outcome)
        level  == r.result
        same   == [ call |-> r, grid |-> grid, actuator |-> actuator, fraction |-> fraction ]
    IN  IF level = None THEN same
        ELSE IF ~ParseInt(level[1]).ok
        THEN [ same EXCEPT !.call = Raising(r, "ValueError") ]
        ELSE [ same EXCEPT !.fraction = [ fraction EXCEPT !["m"] = ParseInt(level[1]).n ] ]

Callbacks == { "checkBattery", "checkChatMix" }

KeyOf(callback) == IF callback = "checkBattery" THEN "b" ELSE "m"

PollTime(callback) ==
    IF callback = "checkBattery" THEN args.batterypolltime ELSE args.chatmixpolltime

Body(callback, outcome) ==
    IF callback = "checkBattery" THEN checkBattery(outcome) ELSE checkChatMix(outcome)

Outcomes(callback) ==
    IF callback = "checkBattery" THEN BatteryOutcomes ELSE ChatMixOutcomes

\* Where the main program continues after its call of the callback.
AfterStart(callback) == IF callback = "checkBattery" THEN "start_m" ELSE "main"

\* History of the battery values polled.
Polled(callback, body) ==
    LET level == body.call.result
    IN  [ started |-> polled.started \cup { callback },
          level   |-> IF callback = "checkBattery" /\ level # None /\ ParseInt(level[1]).ok
                      THEN Some(ParseInt(level[1]).n) ELSE polled.level,
          shown   |-> IF callback = "checkBattery" /\ level # None /\ ParseInt(level[1]).ok
                         /\ ParseInt(level[1]).n >= 0
                      THEN ParseInt(level[1]).n ELSE polled.shown ]

\* One run of a poll callback, called by the main program (ctx "startup") or
\* by the main loop for a timeout (ctx "timer"), with `pending` the timeouts
\* left.  A failed command leaves the callback blocked in the ErrorDialog; an
\* exception ends the callback before its timeout_add, and ends the program
\* when the main program made the call; otherwise the next tick is scheduled.
Run(callback, ctx, pending, outcome) ==
    LET body == Body(callback, outcome)
    IN  /\ grid' = body.grid
        /\ actuator' = body.actuator
        /\ fraction' = body.fraction
        /\ last' = Step("call", callback, ctx, KeyOf(callback), body.call)
        /\ polled' = Polled(callback, body)
        /\ IF body.call.dialog # None
           THEN /\ dialogs' = Append(dialogs, [ handler |-> callback, ctx |-> ctx,
                                                cmd |-> KeyOf(callback) ])
                /\ timers' = pending
                /\ pc' = pc
           ELSE IF body.call.raised # None
           THEN /\ dialogs' = dialogs
                /\ timers' = pending
                /\ pc' = IF ctx = "startup" THEN "crashed" ELSE pc
           ELSE /\ dialogs' = dialogs
                /\ timers' = timeout_add(pending, PollTime(callback) * 1000, callback)
                /\ pc' = IF ctx = "startup" THEN AfterStart(callback) ELSE pc

\* The conditions of lines 310 and 313.
startsLoop_mutant_zero(polltime, key) ==
    polltime >= 0 /\ (lookup(headset_capabilities, key) # None \/ args.debug)

startsLoop(polltime, key) ==
    polltime > 0 /\ (lookup(headset_capabilities, key) # None \/ args.debug)

\* Lines 309-314: each loop is started by a first call of its callback.
StartLoop(callback) ==
    /\ pc = (IF callback = "checkBattery" THEN "start_b" ELSE "start_m")
    /\ dialogs = <<>>
    /\ IF startsLoop(PollTime(callback), KeyOf(callback))
       THEN \E outcome \in Outcomes(callback) : Run(callback, "startup", timers, outcome)
       ELSE /\ pc' = AfterStart(callback)
            /\ last' = Step("skip", callback, "startup", KeyOf(callback), NoCall)
            /\ UNCHANGED << grid, actuator, fraction, timers, dialogs, polled >>
    /\ UNCHANGED << args, device_output, headset_capabilities, row, value, edits >>

\* A main loop is running: Gtk.main(), or the nested loop of an ErrorDialog.
MainLoopRunning == pc = "main" \/ (dialogs # <<>> /\ pc \notin { "crashed", "exited" })

\* A timeout fires: the source is removed (the callback returns None) and
\* the callback runs.
Tick(callback) ==
    /\ MainLoopRunning
    /\ timers[callback] > 0
    /\ \E outcome \in Outcomes(callback) :
         Run(callback, "timer", [ timers EXCEPT ![callback] = @ - 1 ], outcome)
    /\ UNCHANGED << args, device_output, headset_capabilities, row, value, edits >>

\* ------------------------------------------------------------ user edits

Handler(cap) ==
    CASE WidgetKind(cap) = "Entry"      -> "onEntry"
      [] WidgetKind(cap) = "Switch"     -> "onSwitch"
      [] WidgetKind(cap) = "SpinButton" -> "onSpin"
      [] OTHER                          -> "onChangeValue"

\* The argument each callback passes to sendHeadset for the widget value v.
Argument(cap, v) ==
    CASE WidgetKind(cap) = "Entry"      -> PyStr(v)
      [] WidgetKind(cap) = "Switch"     -> IF v = 1 THEN PyInt(1) ELSE PyInt(0)
      [] WidgetKind(cap) = "SpinButton" -> PyInt(v)
      [] OTHER                          -> PyStr(IntToText(v))

\* The user commits value v on the actuator of capability key: the widget
\* takes the value and its callback runs.  The window is usable only while
\* no modal dialog is open.
UserEdit(key, v) ==
    LET cap == all_capabilities.cap_dict[key]
    IN  /\ pc = "main"
        /\ dialogs = <<>>
        /\ edits < MaxEdits
        /\ cap.editable
        /\ \E c \in grid : c.child = Widget(key, WidgetKind(cap))
        /\ v \in UserValues(cap)
        /\ WidgetKind(cap) # "Entry" => v # value[key]
        /\ value' = [ value EXCEPT ![key] = v ]
        /\ edits' = edits + 1
        /\ \E outcome \in WriteOutcomes :
             LET r == sendHeadset(headset_capabilities, key, Some(Argument(cap, v)), outcome)
             IN  /\ last' = Step("call", Handler(cap), "event", key, r)
                 /\ dialogs' = IF r.dialog # None
                               THEN << [ handler |-> Handler(cap), ctx |-> "event",
                                         cmd |-> key ] >>
                               ELSE dialogs
        /\ UNCHANGED << args, pc, device_output, headset_capabilities, grid, row,
                        actuator, fraction, timers, polled >>

\* ------------------------------------------------------------ dialog, quit

\* The user dismisses the topmost ErrorDialog: sendHeadset returns None to
\* the handler blocked in it, which runs to its end.  The main program goes
\* on to result.split and ends with AttributeError; a poll callback skips its
\* update and schedules its next tick; an edit callback has nothing left.
Dismiss ==
    /\ dialogs # <<>>
    /\ pc \notin { "crashed", "exited" }
    /\ LET f == dialogs[Len(dialogs)]
       IN  /\ dialogs' = SubSeq(dialogs, 1, Len(dialogs) - 1)
           /\ timers' = IF f.handler \in Callbacks
                        THEN timeout_add(timers, PollTime(f.handler) * 1000, f.handler)
                        ELSE timers
           /\ pc' = IF f.handler = "main" THEN "crashed"
                    ELSE IF f.handler \in Callbacks /\ f.ctx = "startup"
                    THEN AfterStart(f.handler)
                    ELSE pc
           /\ last' = Step("dismiss", f.handler, f.ctx, f.cmd,
                           IF f.handler = "main" THEN Raising(NoCall, "AttributeError")
                           ELSE NoCall)
    /\ UNCHANGED << args, device_output, headset_capabilities, grid, row, actuator,
                    fraction, value, edits, polled >>

\* MainWindow.quit: Gtk.main_quit() ends Gtk.main() and with it the program.
Quit ==
    /\ pc = "main"
    /\ dialogs = <<>>
    /\ pc' = "exited"
    /\ last' = Step("quit", "quit", "event", "", NoCall)
    /\ UNCHANGED << args, device_output, headset_capabilities, grid, row, actuator,
                    fraction, value, timers, dialogs, edits, polled >>

\* ------------------------------------------------------------ specification

Next ==
    \/ ObtainName
    \/ Discover
    \/ BuildWindow
    \/ \E callback \in Callbacks : StartLoop(callback)
    \/ \E callback \in Callbacks : Tick(callback)
    \/ \E key \in RegistryKeys : \E v \in UserValues(all_capabilities.cap_dict[key]) :
         UserEdit(key, v)
    \/ Dismiss
    \/ Quit

Spec == Init /\ [][Next]_vars

\* ------------------------------------------------------------ properties

\* The main program got past capability discovery.
Discovered == pc \in { "window", "start_b", "start_m", "main", "exited" }

ShortOptions(caps) == [ i \in DOMAIN caps |-> caps[i].short_option ]

\* The keys of the static table, in table order, that are in `keys`.
RegistryOrder(keys) ==
    LET Keep(k) == k \in keys IN SelectSeq(all_capabilities.key_list, Keep)

\* The distinct elements of s, each at its first occurrence.
RECURSIVE Distinct(_)
Distinct(s) ==
    IF s = <<>> THEN <<>>
    ELSE LET front == Distinct(SubSeq(s, 1, Len(s) - 1))
         IN  IF s[Len(s)] \in Range(front) THEN front ELSE Append(front, s[Len(s)])

\* The text a widget value is sent as.
ValueText(cap, v) == IF WidgetKind(cap) = "Entry" THEN v ELSE IntToText(v)

IsSupported(cmd) == cmd = "?" \/ cmd \in DOMAIN headset_capabilities.cap_dict

\* C1: sendHeadset executes the external command only for '?' or a key of
\* the supported set; for any other key it executes nothing, shows no error
\* dialog and returns None (in normal and in debug mode).
C1_GuardedExecution ==
    last.step = "call" =>
        /\ last.runs > 0 => IsSupported(last.cmd)
        /\ ~IsSupported(last.cmd) =>
             /\ last.runs = 0
             /\ last.dialog = None
             /\ last.result = None
             /\ \A i \in DOMAIN dialogs : dialogs[i].cmd # last.cmd

\* C1 witness: in debug mode the battery loop called sendHeadset for the
\* unsupported key 'b' and nothing was executed.
C1_Witness ==
    /\ args.debug
    /\ last.step = "call"
    /\ last.caller = "checkBattery"
    /\ last.cmd \notin DOMAIN headset_capabilities.cap_dict
    /\ last.runs = 0

\* C2 (as claimed): every user commit on the actuator of a supported editable
\* capability executes the external command exactly once, with the arguments
\* -c, -<key> and the str of the new widget value.
C2_EachCommitExecutesOnce ==
    (last.step = "call" /\ last.ctx = "event" /\ IsSupported(last.cmd)) =>
        /\ last.runs = 1
        /\ Tail(last.cmdline) =
             << PyStr(<<"-c">>), PyStr(<<"-", last.cmd>>),
                PyStr(ValueText(all_capabilities.cap_dict[last.cmd], value[last.cmd])) >>

\* C3 (as claimed): a poll tick whose command exits non-zero shows no error
\* dialog and leaves the slot's widget and value as they were.
C3_PollFailureSilent ==
    [][ (last'.step = "call" /\ last'.caller \in Callbacks /\ last'.returncode # 0) =>
            /\ last'.dialog = None
            /\ dialogs' = dialogs
            /\ UNCHANGED << grid, actuator, fraction >> ]_vars

\* C4: while the battery has a cell in the window, exactly one of its two
\* widgets is in the grid, the one cap.actuator names; it is the charging
\* label iff the most recent successfully polled value was negative, and
\* otherwise the level bar set to the most recent non-negative value polled
\* (the default before any).
C4_BatterySlot ==
    row["b"] # None =>
        LET slot == { c \in grid : c.child.cap = "b" }
        IN  /\ Cardinality(slot) = 1
            /\ \A c \in slot : c.child.w = actuator["b"]
            /\ actuator["b"] \in { "displayLevel", "displayCharging" }
            /\ actuator["b"] = "displayCharging" <=>
                 (polled.level # None /\ polled.level[1] < 0)
            /\ actuator["b"] = "displayLevel" => fraction["b"] = polled.shown

\* C4 witness: a poll returned 75, a later one a negative value: the cell
\* holds the charging label and the level bar still holds 75.
C4_Witness ==
    /\ row["b"] # None
    /\ last.caller = "checkBattery"
    /\ actuator["b"] = "displayCharging"
    /\ fraction["b"] = 75
    /\ polled.level = Some(-1)

\* A run of `callback` has just ended (it returned, or an exception ended it).
TickEnded(callback) ==
    \/ last.step = "call" /\ last.caller = callback /\ last.dialog = None
    \/ last.step = "dismiss" /\ last.caller = callback

\* Pending timeouts of the callback plus its runs blocked in a dialog.
InFlight(callback) ==
    timers[callback] + Cardinality({ i \in DOMAIN dialogs : dialogs[i].handler = callback })

\* C5 (as claimed): while the program runs, every tick of a poll loop, what-
\* ever its invocation gave, ends with exactly one next tick scheduled, and a
\* loop never has more than one tick pending or running.
C5_TickAlwaysReschedules ==
    \A callback \in Callbacks :
        /\ InFlight(callback) <= 1
        /\ (TickEnded(callback) /\ pc \notin { "crashed", "exited" }) =>
               timers[callback] = 1

C7_ZeroIntervalNeverStarts ==
    \A callback \in Callbacks :
        PollTime(callback) = 0 =>
            /\ timers[callback] = 0
            /\ callback \notin polled.started
            /\ ~(last.step \in { "call", "dismiss" } /\ last.caller = callback)
            /\ \A i \in DOMAIN dialogs : dialogs[i].handler # callback

\* C7 witness: the battery interval is 0, the device supports 'b', the main
\* loop runs and the chat-mix timer has fired, and no battery timeout exists.
C7_Witness ==
    /\ args.batterypolltime = 0
    /\ "b" \in DOMAIN headset_capabilities.cap_dict
    /\ pc = "main"
    /\ last.step = "call" /\ last.caller = "checkChatMix" /\ last.ctx = "timer"
    /\ timers["checkBattery"] = 0

\* The step just taken was a user edit whose command was run and failed.
EditFailed ==
    last.step = "call" /\ last.ctx = "event" /\ last.runs = 1 /\ last.returncode # 0

\* The callback of a user edit is blocked in its ErrorDialog.
EditBlocked == dialogs # <<>> /\ dialogs[1].ctx = "event"

\* C8: when the command run for a user edit of a supported capability exits
\* non-zero, an ErrorDialog with the command's error text blocks the
\* callback, the program is still in its main loop and the widget shows the
\* value that was sent; until the dialog is dismissed, and when it is, the
\* widget values stay, the program stays in its main loop and no callback of
\* an edit runs a command.
C8_EditFailureSurfaced ==
    [][ /\ EditFailed' =>
             /\ IsSupported(last'.cmd)
             /\ last'.dialog = Some(last'.stderr)
             /\ dialogs' = << [ handler |-> last'.caller, ctx |-> "event",
                                cmd |-> last'.cmd ] >>
             /\ pc' = "main"
             /\ last'.cmdline[4] =
                  PyStr(ValueText(all_capabilities.cap_dict[last'.cmd], value'[last'.cmd]))
        /\ EditBlocked =>
             /\ value' = value
             /\ pc' = "main"
             /\ EditBlocked' \/ (dialogs' = <<>> /\ last'.step = "dismiss" /\ last'.runs = 0)
             /\ last'.ctx = "event" => last'.runs = 0 ]_vars

\* C8 witness: the dialog of a failed slider edit of 's' to 128 has been
\* dismissed, and the slider still shows 128.
C8_Witness ==
    /\ last.step = "dismiss"
    /\ last.ctx = "event"
    /\ last.cmd = "s"
    /\ value["s"] = 128
    /\ pc = "main"

\* C9 (as claimed): the program gets past discovery only with a non-empty
\* supported set made of the keys of a non-empty first line of registry keys.
C9_StartupAbortsOnBadDiscovery ==
    Discovered =>
        /\ FirstLine(device_output) # <<>>
        /\ Range(FirstLine(device_output)) \subseteq RegistryKeys
        /\ len(headset_capabilities) > 0

\* C10 (as claimed): iterating a registry yields the capability of each
\* distinct key inserted exactly once, in insertion order, as many as
\* len(registry); lookup of a key never inserted returns None.
C10_IterationYieldsEachKeyOnce ==
    LET yielded == Iterate(headset_capabilities)
    IN  /\ ShortOptions(yielded) = Distinct(headset_capabilities.key_list)
        /\ \A i \in DOMAIN yielded :
               yielded[i] = all_capabilities.cap_dict[yielded[i].short_option]
        /\ Len(yielded) = len(headset_capabilities)
        /\ \A key \in (RegistryKeys \cup RespAlphabet) \ Range(headset_capabilities.key_list) :
               lookup(headset_capabilities, key) = None

====
